---- MODULE Spec2Model ----
(***************************************************************************)
(* libwacom: the tablet descriptor database.                               *)
(*                                                                         *)
(*   database.c (src/unnamed/part_000): libwacom_database_new and the two  *)
(*       keyfile parsers that fill device_ht and stylus_ht                 *)
(*   libwacom.c (src/libwacom/libwacom.c): the resolvers                   *)
(*       libwacom_new_from_path / _usbid / _name, libwacom_copy and        *)
(*       libwacom_destroy                                                  *)
(*                                                                         *)
(* Text is modelled as a sequence of one-character strings so that the     *)
(* scanning (sscanf, strtol) and the formatting (g_strdup_printf) of the   *)
(* code are computed, character by character, as the C library does.       *)
(* Heap objects (device structs, their strings and stylus-id arrays,       *)
(* stylus structs) live in the cells of mem and are named by their         *)
(* address; NULL is address 0.                                             *)
(***************************************************************************)
EXTENDS Integers, Sequences, FiniteSets, TLC

VARIABLES
    datadir,     \* scandir(DATADIR) after alphasort: files[0..n-1], ascending
    stylusfile,  \* the stylus catalog: <<>> when it cannot be loaded, else <<groups>>
    pc,          \* position of the process: see PcValues
    n,           \* libwacom_database_new: the loop counter n
    gi,          \* libwacom_parse_stylus_keyfile: the loop counter i
    db,          \* the WacomDeviceDatabase struct: which tables were created
    device_ht,   \* db->device_ht: key (<<text>>, or <<>> for a NULL key) -> device
    stylus_ht,   \* db->stylus_ht: id -> stylus
    mem,         \* the heap: a sequence of cells
    held,        \* the devices the caller got from a resolver and still holds
    call,        \* the last public call and what it returned
    warnings     \* what g_warning / g_critical logged during the load

vars == <<datadir, stylusfile, pc, n, gi, db, device_ht, stylus_ht, mem, held,
          call, warnings>>

(***************************************************************************)
(* Bounds of the model.                                                    *)
(***************************************************************************)
MaxFiles == 2    \* .tablet files in the data directory
MaxGroups == 2   \* groups in the stylus catalog
MaxHeld == 1     \* resolved devices the caller holds at once

(***************************************************************************)
(* Program constants.                                                      *)
(***************************************************************************)
NULL == 0
BusStrMax == 63           \* "%63[^:]" in libwacom_matchstr_to_ints
ButtonsUndefined == -1    \* stylus->num_buttons when Buttons is not in the file

(***************************************************************************)
(* Optional values: <<>> is "absent" (a NULL string from GKeyFile),        *)
(* <<v>> is v.                                                             *)
(***************************************************************************)
None == <<>>
Some(v) == <<v>>
IsSome(o) == o # <<>>
Val(o) == o[1]

(***************************************************************************)
(* Characters and numbers.                                                 *)
(***************************************************************************)
HexDigits == <<"0","1","2","3","4","5","6","7","8","9","a","b","c","d","e","f">>

DigitVal(c) ==
    CASE c = "0" -> 0  [] c = "1" -> 1  [] c = "2" -> 2  [] c = "3" -> 3
      [] c = "4" -> 4  [] c = "5" -> 5  [] c = "6" -> 6  [] c = "7" -> 7
      [] c = "8" -> 8  [] c = "9" -> 9
      [] c \in {"a", "A"} -> 10  [] c \in {"b", "B"} -> 11
      [] c \in {"c", "C"} -> 12  [] c \in {"d", "D"} -> 13
      [] c \in {"e", "E"} -> 14  [] c \in {"f", "F"} -> 15
      [] OTHER -> 99

IsDigit(c, base) == DigitVal(c) < base

\* The longest run of base-`base` digits of s from position i on:
\* [v |-> its value, j |-> the position after it].
RECURSIVE ScanDigits(_, _, _, _)
ScanDigits(s, i, base, acc) ==
    IF i <= Len(s) /\ IsDigit(s[i], base)
    THEN ScanDigits(s, i + 1, base, acc * base + DigitVal(s[i]))
    ELSE [v |-> acc, j |-> i]

HasHexPrefix(s, i) ==
    /\ i + 2 <= Len(s)
    /\ s[i] = "0"
    /\ s[i + 1] \in {"x", "X"}
    /\ IsDigit(s[i + 2], 16)

\* strtol(s, NULL, base) for base 16 and base 0 (auto-detected), on text
\* without leading white space: optional sign, optional 0x prefix, digits;
\* 0 when no digit is there.
strtol(s, base) ==
    LET neg == Len(s) >= 1 /\ s[1] = "-"
        i0  == IF Len(s) >= 1 /\ s[1] \in {"-", "+"} THEN 2 ELSE 1
        hex == base \in {0, 16} /\ HasHexPrefix(s, i0)
        b   == IF base = 16 THEN 16
               ELSE IF hex THEN 16
               ELSE IF i0 <= Len(s) /\ s[i0] = "0" THEN 8
               ELSE 10
        i1  == IF hex THEN i0 + 2 ELSE i0
        r   == ScanDigits(s, i1, b, 0)
    IN  IF neg THEN 0 - r.v ELSE r.v

\* The texts of the model are a few characters long, so every number read or
\* printed is far inside the range of int and of uint32_t; no conversion of
\* the model wraps.
\* One "%x" conversion of sscanf at position i:
\* [ok |-> a number was read, v |-> it, j |-> the position after it].
ScanHex(s, i) ==
    LET neg == i <= Len(s) /\ s[i] = "-"
        i0  == IF i <= Len(s) /\ s[i] \in {"-", "+"} THEN i + 1 ELSE i
        i1  == IF HasHexPrefix(s, i0) THEN i0 + 2 ELSE i0
        r   == ScanDigits(s, i1, 16, 0)
    IN  [ok |-> r.j > i1, v |-> IF neg THEN 0 - r.v ELSE r.v, j |-> r.j]

\* One "%d" conversion of sscanf at position i.
ScanDec(s, i) ==
    LET neg == i <= Len(s) /\ s[i] = "-"
        i0  == IF i <= Len(s) /\ s[i] \in {"-", "+"} THEN i + 1 ELSE i
        r   == ScanDigits(s, i0, 10, 0)
    IN  [ok |-> r.j > i0, v |-> IF neg THEN 0 - r.v ELSE r.v, j |-> r.j]

\* A literal character of a sscanf format at position i.
ScanLit(s, i, c) == i <= Len(s) /\ s[i] = c

\* "%x" of printf: lower-case hexadecimal, no leading zeros.
RECURSIVE ToHex(_)
ToHex(v) ==
    IF v < 16 THEN <<HexDigits[v + 1]>>
    ELSE ToHex(v \div 16) \o <<HexDigits[(v % 16) + 1]>>

(***************************************************************************)
(* Enum/string mappers (database.c).                                       *)
(***************************************************************************)
T_usb == <<"u","s","b">>
T_serial == <<"s","e","r","i","a","l">>
T_bluetooth == <<"b","l","u","e","t","o","o","t","h">>
T_generic == <<"g","e","n","e","r","i","c">>     \* GENERIC_DEVICE_MATCH
T_Intuos3 == <<"I","n","t","u","o","s","3">>
T_Intuos4 == <<"I","n","t","u","o","s","4">>
T_Cintiq == <<"C","i","n","t","i","q">>
T_Bamboo == <<"B","a","m","b","o","o">>
T_Graphire == <<"G","r","a","p","h","i","r","e">>
T_General == <<"G","e","n","e","r","a","l">>
T_Inking == <<"I","n","k","i","n","g">>
T_Airbrush == <<"A","i","r","b","r","u","s","h">>
T_Classic == <<"C","l","a","s","s","i","c">>
T_Marker == <<"M","a","r","k","e","r">>

\* model: a string or NULL (None)
libwacom_model_string_to_enum(model) ==
    IF ~IsSome(model) \/ Val(model) = <<>> THEN "WCLASS_UNKNOWN"
    ELSE CASE Val(model) = T_Intuos3 -> "WCLASS_INTUOS3"
           [] Val(model) = T_Intuos4 -> "WCLASS_INTUOS4"
           [] Val(model) = T_Cintiq -> "WCLASS_CINTIQ"
           [] Val(model) = T_Bamboo -> "WCLASS_BAMBOO"
           [] Val(model) = T_Graphire -> "WCLASS_GRAPHIRE"
           [] OTHER -> "WCLASS_UNKNOWN"

\* type: a string or NULL (None)
type_from_str(type) ==
    IF ~IsSome(type) THEN "WSTYLUS_UNKNOWN"
    ELSE CASE Val(type) = T_General -> "WSTYLUS_GENERAL"
           [] Val(type) = T_Inking -> "WSTYLUS_INKING"
           [] Val(type) = T_Airbrush -> "WSTYLUS_AIRBRUSH"
           [] Val(type) = T_Classic -> "WSTYLUS_CLASSIC"
           [] Val(type) = T_Marker -> "WSTYLUS_MARKER"
           [] OTHER -> "WSTYLUS_UNKNOWN"

\* str: a string (the callers never pass NULL)
bus_from_str(str) ==
    CASE str = T_usb -> "WBUSTYPE_USB"
      [] str = T_serial -> "WBUSTYPE_SERIAL"
      [] str = T_bluetooth -> "WBUSTYPE_BLUETOOTH"
      [] OTHER -> "WBUSTYPE_UNKNOWN"

\* bus_to_str runs into g_assert_not_reached() for WBUSTYPE_UNKNOWN.
bus_to_str_aborts(bus) == bus \notin {"WBUSTYPE_USB", "WBUSTYPE_SERIAL", "WBUSTYPE_BLUETOOTH"}

bus_to_str(bus) ==
    CASE bus = "WBUSTYPE_USB" -> T_usb
      [] bus = "WBUSTYPE_SERIAL" -> T_bluetooth
      [] bus = "WBUSTYPE_BLUETOOTH" -> T_bluetooth
      [] OTHER -> <<>>

\* g_strdup_printf ("%s:0x%x:0x%x", bus_to_str (bus), vendor_id, product_id)
MatchKey(bus, vendor_id, product_id) ==
    bus_to_str(bus) \o <<":", "0", "x">> \o ToHex(vendor_id)
                    \o <<":", "0", "x">> \o ToHex(product_id)

\* "%63[^:]": the position after the longest run of characters other than
\* ':' that starts at i and is at most BusStrMax long.
RECURSIVE ScanNotColon(_, _)
ScanNotColon(s, i) ==
    IF i <= Len(s) /\ i <= BusStrMax /\ s[i] # ":"
    THEN ScanNotColon(s, i + 1)
    ELSE i

\* sscanf(match, "%63[^:]:%x:%x", busstr, vendor_id, product_id) and what
\* follows it: rc is the number of conversions made; vendor_id, product_id
\* and bus are written only as far as the scan and the function got.
libwacom_matchstr_to_ints(match, vendor_id, product_id, bus) ==
    LET a  == ScanNotColon(match, 1)
        v  == ScanHex(match, a + 1)
        p  == ScanHex(match, v.j + 1)
        rc == IF a = 1 THEN 0
              ELSE IF ~ScanLit(match, a, ":") \/ ~v.ok THEN 1
              ELSE IF ~ScanLit(match, v.j, ":") \/ ~p.ok THEN 2
              ELSE 3
    IN  [ret        |-> IF rc = 3 THEN 1 ELSE 0,
         vendor_id  |-> IF rc >= 2 THEN v.v ELSE vendor_id,
         product_id |-> IF rc = 3 THEN p.v ELSE product_id,
         bus        |-> IF rc = 3 THEN bus_from_str(SubSeq(match, 1, a - 1)) ELSE bus]

(***************************************************************************)
(* The heap.                                                               *)
(***************************************************************************)
FreeCell == [kind |-> "free", v |-> <<>>]

IsLive(m, a) == a \in 1..Len(m) /\ m[a].kind # "free"

\* The allocator hands out the lowest address that is free.
FreeAddr(m) ==
    IF \E a \in 1..Len(m) : m[a].kind = "free"
    THEN CHOOSE a \in 1..Len(m) :
            /\ m[a].kind = "free"
            /\ \A b \in 1..(a - 1) : m[b].kind # "free"
    ELSE Len(m) + 1

Store(m, a, cell) == IF a > Len(m) THEN Append(m, cell) ELSE [m EXCEPT ![a] = cell]

RECURSIVE Trim(_)
Trim(m) ==
    IF Len(m) > 0 /\ m[Len(m)].kind = "free" THEN Trim(SubSeq(m, 1, Len(m) - 1)) ELSE m

\* g_free(a): g_free(NULL) does nothing.
g_free(m, a) == IF a = NULL \/ a > Len(m) THEN m ELSE Trim([m EXCEPT ![a] = FreeCell])

\* The string at address a as GLib reads it: NULL stays NULL.
StrAt(m, a) == IF a = NULL THEN None ELSE Some(m[a].v)

\* g_strdup(str): NULL for NULL, else a new cell holding the characters.
g_strdup(m, str) ==
    IF ~IsSome(str) THEN [m |-> m, p |-> NULL]
    ELSE LET a == FreeAddr(m)
         IN  [m |-> Store(m, a, [kind |-> "str", v |-> Val(str)]), p |-> a]

\* g_memdup(mem, byte_size): NULL when mem is NULL or byte_size is 0, else a
\* new cell holding the first `count` ints found at src.
g_memdup(m, src, count) ==
    IF src = NULL \/ count = 0 THEN [m |-> m, p |-> NULL]
    ELSE LET a == FreeAddr(m)
         IN  [m |-> Store(m, a, [kind |-> "ints", v |-> SubSeq(m[src].v, 1, count)]),
              p |-> a]

\* g_new0 (WacomDevice, 1)
ZeroDevice ==
    [kind |-> "dev", vendor |-> NULL, product |-> NULL, width |-> 0, height |-> 0,
     match |-> NULL, vendor_id |-> 0, product_id |-> 0, cls |-> "WCLASS_UNKNOWN",
     bus |-> "WBUSTYPE_UNKNOWN", num_buttons |-> 0, supported_styli |-> NULL,
     num_styli |-> 0, features |-> {}]

(***************************************************************************)
(* The data directory: what GKeyFile hands to the parsers.  A .tablet file *)
(* either fails to load or gives the values of its keys: strings as text   *)
(* or None, integers and booleans as g_key_file_get_integer / _boolean     *)
(* return them (0 / FALSE when the key is absent).                         *)
(***************************************************************************)
TabletFile(loads, Vendor, Product, Class, DeviceMatch, Styli, Features, Buttons) ==
    [loads |-> loads, Vendor |-> Vendor, Product |-> Product, Width |-> 8,
     Height |-> 6, Class |-> Class, DeviceMatch |-> DeviceMatch, Styli |-> Styli,
     Features |-> Features, Buttons |-> Buttons]

T_W == <<"W">>
T_I4 == <<"I","4">>
T_BF == <<"B","F">>
T_G == <<"G">>
T_S == <<"S">>

M_usb_padded == <<"u","s","b",":","0","5","6","a",":","0","0","8","1">>
M_usb_prefixed == <<"u","s","b",":","0","x","5","6","a",":","0","x","8","1">>
M_serial == <<"s","e","r","i","a","l",":","5","6","a",":","8","1">>
M_bluetooth == <<"b","l","u","e","t","o","o","t","h",":","5","6","a",":","8","1">>
M_twofields == <<"u","s","b",":","5","6","a">>
M_pci == <<"p","c","i",":","1",":","2">>

FileIntuos == TabletFile(TRUE, Some(T_W), Some(T_I4), Some(T_Intuos4), Some(M_usb_padded),
                         Some(<< <<"0","x","1","a">>, <<"2">> >>), {"Stylus", "Ring"}, 9)
FileBamboo == TabletFile(TRUE, Some(T_W), Some(T_BF), Some(T_Bamboo), Some(M_usb_prefixed),
                         None, {"Touch"}, 4)
FileGeneric == TabletFile(TRUE, None, Some(T_G), None, Some(T_generic),
                          Some(<< <<"1">> >>), {"Stylus"}, 0)
FileSerial == TabletFile(TRUE, Some(T_W), Some(T_S), Some(T_Graphire), Some(M_serial),
                         None, {}, 0)
FileBluetooth == TabletFile(TRUE, Some(T_W), Some(T_I4), Some(T_Intuos4), Some(M_bluetooth),
                            Some(<< <<"0","1","0">> >>), {"Stylus", "BuiltIn"}, 2)
FileTwoFields == TabletFile(TRUE, Some(T_W), Some(T_S), None, Some(M_twofields), None, {}, 0)
FileNoMatch == TabletFile(TRUE, Some(T_W), Some(T_S), None, None, None, {}, 0)
FilePci == TabletFile(TRUE, Some(T_W), Some(T_S), None, Some(M_pci), None, {}, 0)
FileBroken == TabletFile(FALSE, None, None, None, None, None, {}, 0)

TabletFiles == {FileIntuos, FileBamboo, FileGeneric, FileSerial, FileBluetooth,
                FileTwoFields, FileNoMatch, FilePci, FileBroken}

\* Sequences over S of length at most k.
SeqsUpTo(S, k) == UNION {[1..l -> S] : l \in 0..k}

(***************************************************************************)
(* The stylus catalog: one group per stylus.                               *)
(***************************************************************************)
StylusGroup(group, Name, IsEraser, HasEraser, Buttons, Type) ==
    [group |-> group, Name |-> Name, IsEraser |-> IsEraser, HasEraser |-> HasEraser,
     Buttons |-> Buttons, Type |-> Type]

GroupPen == StylusGroup(<<"1","a">>, Some(<<"P">>), FALSE, TRUE, Some(2), Some(T_General))
GroupEraser == StylusGroup(<<"1","A">>, Some(<<"E">>), TRUE, TRUE, Some(2), Some(T_General))
GroupBare == StylusGroup(<<"0","x","1","a">>, None, FALSE, FALSE, None, None)
GroupInk == StylusGroup(<<"2","b">>, Some(<<"K">>), FALSE, FALSE, Some(0), Some(T_Inking))
GroupBadId == StylusGroup(<<"z","z">>, Some(<<"Z">>), TRUE, FALSE, Some(1), Some(T_Marker))

StylusGroups == {GroupPen, GroupEraser, GroupBare, GroupInk, GroupBadId}

(***************************************************************************)
(* Descriptor Parser (database.c).                                         *)
(***************************************************************************)
\* The Styli list: each entry through strtol(.., 0).
RECURSIVE ParseStyli(_)
ParseStyli(list) ==
    IF list = <<>> THEN <<>>
    ELSE <<strtol(Head(list), 0)>> \o ParseStyli(Tail(list))

\* libwacom_parse_tablet_keyfile, as the set of its outcomes:
\*   [kind |-> "null"]   the file did not load
\*   [kind |-> "dev"]    d holds the values of the new WacomDevice
\*   [kind |-> "abort"]  bus_to_str hit g_assert_not_reached
\*   [kind |-> "segv"]   sscanf was handed a NULL match string
\* With DeviceMatch absent, match is NULL and sscanf(NULL, ...) is undefined:
\* it faults, or it converts nothing.
libwacom_parse_tablet_keyfile(f) ==
    LET base == [vendor |-> f.Vendor, product |-> f.Product, width |-> f.Width,
                 height |-> f.Height, cls |-> libwacom_model_string_to_enum(f.Class),
                 match |-> None, vendor_id |-> 0, product_id |-> 0,
                 bus |-> "WBUSTYPE_UNKNOWN", num_buttons |-> f.Buttons,
                 styli |-> IF IsSome(f.Styli) THEN ParseStyli(Val(f.Styli)) ELSE <<>>,
                 num_styli |-> IF IsSome(f.Styli) THEN Len(Val(f.Styli)) ELSE 0,
                 features |-> f.Features]
        r    == libwacom_matchstr_to_ints(Val(f.DeviceMatch), 0, 0, "WBUSTYPE_UNKNOWN")
        ids  == [base EXCEPT !.vendor_id = r.vendor_id, !.product_id = r.product_id,
                             !.bus = r.bus]
    IN  IF ~f.loads THEN {[kind |-> "null", d |-> base]}
        ELSE IF f.DeviceMatch = Some(T_generic)
        THEN {[kind |-> "dev", d |-> [base EXCEPT !.match = f.DeviceMatch]]}
        ELSE IF ~IsSome(f.DeviceMatch)
        THEN {[kind |-> "segv", d |-> base], [kind |-> "dev", d |-> base]}
        ELSE IF r.ret = 0 THEN {[kind |-> "dev", d |-> ids]}
        ELSE IF bus_to_str_aborts(r.bus) THEN {[kind |-> "abort", d |-> ids]}
        ELSE {[kind |-> "dev",
               d |-> [ids EXCEPT !.match =
                         Some(MatchKey(r.bus, r.vendor_id, r.product_id))]]}

\* The heap after the parser built the WacomDevice d: the struct, then its
\* strings and its stylus-id array (NULL when no id was appended).
NewDevice(m, d) ==
    LET a  == FreeAddr(m)
        m0 == Store(m, a, ZeroDevice)
        v  == g_strdup(m0, d.vendor)
        p  == g_strdup(v.m, d.product)
        k  == g_strdup(p.m, d.match)
        sa == FreeAddr(k.m)
        sp == IF d.styli = <<>> THEN NULL ELSE sa
        m1 == IF d.styli = <<>> THEN k.m
              ELSE Store(k.m, sa, [kind |-> "ints", v |-> d.styli])
    IN  [m |-> [m1 EXCEPT ![a] =
                  [kind |-> "dev", vendor |-> v.p, product |-> p.p, width |-> d.width,
                   height |-> d.height, match |-> k.p, vendor_id |-> d.vendor_id,
                   product_id |-> d.product_id, cls |-> d.cls, bus |-> d.bus,
                   num_buttons |-> d.num_buttons, supported_styli |-> sp,
                   num_styli |-> d.num_styli, features |-> d.features]],
         p |-> a]

\* libwacom_destroy(device)
libwacom_destroy(m, device) ==
    LET d  == m[device]
        m1 == g_free(m, d.vendor)
        m2 == g_free(m1, d.product)
        m3 == g_free(m2, d.match)
        m4 == g_free(m3, d.supported_styli)
    IN  g_free(m4, device)

\* libwacom_stylus_destroy(stylus)
libwacom_stylus_destroy(m, stylus) == g_free(g_free(m, m[stylus].name), stylus)

\* g_hash_table_insert that leaves the value of an existing key in place
DeviceTableInsert_keep(ht, m, key, value) ==
    IF key \in DOMAIN ht
    THEN [ht |-> ht, m |-> libwacom_destroy(m, value)]
    ELSE [ht |-> [k \in DOMAIN ht \cup {key} |-> IF k = key THEN value ELSE ht[k]],
          m |-> m]

\* g_hash_table_insert on device_ht (value destroy function libwacom_destroy):
\* an existing key keeps its place and its old value is destroyed and
\* replaced.  key is <<text>>, or <<>> for a NULL key.
DeviceTableInsert(ht, m, key, value) ==
    IF key \in DOMAIN ht
    THEN [ht |-> [ht EXCEPT ![key] = value], m |-> libwacom_destroy(m, ht[key])]
    ELSE [ht |-> [k \in DOMAIN ht \cup {key} |-> IF k = key THEN value ELSE ht[k]],
          m |-> m]

\* g_hash_table_insert that leaves the value of an existing id in place
StylusTableInsert_keep(ht, m, id, value) ==
    IF id \in DOMAIN ht
    THEN [ht |-> ht, m |-> libwacom_stylus_destroy(m, value)]
    ELSE [ht |-> [k \in DOMAIN ht \cup {id} |-> IF k = id THEN value ELSE ht[k]],
          m |-> m]

\* g_hash_table_insert on stylus_ht (value destroy function libwacom_stylus_destroy)
StylusTableInsert(ht, m, id, value) ==
    IF id \in DOMAIN ht
    THEN [ht |-> [ht EXCEPT ![id] = value], m |-> libwacom_stylus_destroy(m, ht[id])]
    ELSE [ht |-> [k \in DOMAIN ht \cup {id} |-> IF k = id THEN value ELSE ht[k]],
          m |-> m]

\* g_hash_table_lookup on device_ht with a string key
DeviceTableLookup(ht, key) == IF Some(key) \in DOMAIN ht THEN ht[Some(key)] ELSE NULL

\* The stylus parser reading HasEraser and Buttons whatever IsEraser says
ParseStylusGroup_unforced(g, id) ==
    LET buttons == IF IsSome(g.Buttons) THEN Val(g.Buttons) ELSE 0
        failed  == ~IsSome(g.Buttons)
    IN  [id |-> id, name |-> g.Name, is_eraser |-> g.IsEraser,
         has_eraser |-> g.HasEraser,
         num_buttons |-> IF buttons = 0 /\ failed THEN ButtonsUndefined ELSE buttons,
         type |-> type_from_str(g.Type)]

\* One group of the stylus catalog with a nonzero id: the fields of the new
\* WacomStylus (name still as text).
ParseStylusGroup(g, id) ==
    LET buttons == IF IsSome(g.Buttons) THEN Val(g.Buttons) ELSE 0
        failed  == ~IsSome(g.Buttons)    \* g_key_file_get_integer set error
    IN  [id |-> id,
         name |-> g.Name,
         is_eraser |-> g.IsEraser,
         has_eraser |-> IF g.IsEraser = FALSE THEN g.HasEraser ELSE FALSE,
         num_buttons |-> IF g.IsEraser = FALSE
                         THEN (IF buttons = 0 /\ failed THEN ButtonsUndefined ELSE buttons)
                         ELSE 0,
         type |-> type_from_str(g.Type)]

\* The heap after g_new0 (WacomStylus, 1) and the reads that fill it.
NewStylus(m, st) ==
    LET a  == FreeAddr(m)
        m0 == Store(m, a, [kind |-> "stylus", id |-> st.id, name |-> NULL,
                           is_eraser |-> st.is_eraser, has_eraser |-> st.has_eraser,
                           num_buttons |-> st.num_buttons, type |-> st.type])
        nm == g_strdup(m0, st.name)
    IN  [m |-> [nm.m EXCEPT ![a].name = nm.p], p |-> a]

(***************************************************************************)
(* Database Builder (database.c): libwacom_database_new, in steps.         *)
(***************************************************************************)
NoDb == [alive |-> FALSE, device_ht |-> FALSE, stylus_ht |-> FALSE]

NoCall == [op |-> "none", db |-> FALSE, vendor_id |-> 0, product_id |-> 0,
           path |-> None, fallback |-> FALSE, name |-> None, id |-> 0,
           ret |-> NULL, err |-> "none", critical |-> FALSE]

Catalogs == {None} \cup {Some(c) : c \in SeqsUpTo(StylusGroups, MaxGroups)}

\* The data directories of the model: every directory of at most MaxFiles
\* files beside a one-stylus catalog, and every catalog of at most MaxGroups
\* groups (or none) beside an empty and a one-file directory.
Environments ==
    {<<d, Some(<<GroupPen>>)>> : d \in SeqsUpTo(TabletFiles, MaxFiles)}
    \cup {<<d, c>> : d \in {<<>>, <<FileIntuos>>}, c \in Catalogs}

Init ==
    /\ \E e \in Environments : datadir = e[1] /\ stylusfile = e[2]
    /\ pc = "start"
    /\ n = 0
    /\ gi = 0
    /\ db = NoDb
    /\ device_ht = <<>>
    /\ stylus_ht = <<>>
    /\ mem = <<>>
    /\ held = {}
    /\ call = NoCall
    /\ warnings = <<>>

\* libwacom_database_new up to the first loop test: the db and device_ht are
\* created and the directory is scanned; with n <= 0 the function returns.
DatabaseNew ==
    /\ pc = "start"
    /\ call = NoCall
    /\ db' = [alive |-> TRUE, device_ht |-> TRUE, stylus_ht |-> FALSE]
    /\ n' = Len(datadir)
    /\ pc' = IF Len(datadir) <= 0 THEN "ready" ELSE "tablets"
    /\ call' = [NoCall EXCEPT !.op = "database_new"]
    /\ UNCHANGED <<datadir, stylusfile, gi, device_ht, stylus_ht, mem, held, warnings>>

\* One pass of while(n--): files[n] is parsed and, when a device came back,
\* inserted under g_strdup (d->match).  A NULL key makes g_str_hash read
\* through NULL, which is undefined: the process faults, or the entry goes
\* in under the NULL key.
LoadTablet ==
    /\ pc = "tablets"
    /\ n > 0
    /\ n' = n - 1
    /\ \E o \in libwacom_parse_tablet_keyfile(datadir[n]) :
         CASE o.kind = "null" ->
                /\ pc' = IF n' = 0 THEN "styli" ELSE "tablets"
                /\ UNCHANGED <<device_ht, mem>>
           [] o.kind \in {"abort", "segv"} ->
                /\ pc' = IF o.kind = "abort" THEN "aborted" ELSE "segv"
                /\ UNCHANGED <<device_ht, mem>>
           [] o.kind = "dev" ->
                LET d   == NewDevice(mem, o.d)
                    ins == DeviceTableInsert(device_ht, d.m, o.d.match, d.p)
                IN  \/ /\ device_ht' = ins.ht
                       /\ mem' = ins.m
                       /\ pc' = IF n' = 0 THEN "styli" ELSE "tablets"
                    \/ /\ ~IsSome(o.d.match)
                       /\ pc' = "segv"
                       /\ mem' = d.m
                       /\ UNCHANGED device_ht
    /\ UNCHANGED <<datadir, stylusfile, gi, db, stylus_ht, held, call, warnings>>

\* After the loop: stylus_ht is created and libwacom_parse_stylus_keyfile
\* loads the catalog under g_assert (rc).
LoadStyli ==
    /\ pc = "styli"
    /\ db' = [db EXCEPT !.stylus_ht = TRUE]
    /\ gi' = 0
    /\ pc' = IF ~IsSome(stylusfile) THEN "aborted"
             ELSE IF Val(stylusfile) = <<>> THEN "ready"
             ELSE "groups"
    /\ UNCHANGED <<datadir, stylusfile, n, device_ht, stylus_ht, mem, held, call, warnings>>

\* One pass of the loop over groups[i] in libwacom_parse_stylus_keyfile;
\* after the last group libwacom_database_new returns the db.
LoadStylusGroup ==
    /\ pc = "groups"
    /\ gi < Len(Val(stylusfile))
    /\ gi' = gi + 1
    /\ pc' = IF gi' = Len(Val(stylusfile)) THEN "ready" ELSE "groups"
    /\ LET g  == Val(stylusfile)[gi + 1]
           id == strtol(g.group, 16)
           st == NewStylus(mem, ParseStylusGroup(g, id))
           ins == StylusTableInsert(stylus_ht, st.m, id, st.p)
       IN  IF id = 0
           THEN /\ warnings' = Append(warnings, [what |-> "Failed to parse stylus ID", id |-> 0])
                /\ UNCHANGED <<stylus_ht, mem>>
           ELSE /\ warnings' = IF id \in DOMAIN stylus_ht
                               THEN Append(warnings, [what |-> "Duplicate definition", id |-> id])
                               ELSE warnings
                /\ stylus_ht' = ins.ht
                /\ mem' = ins.m
    /\ UNCHANGED <<datadir, stylusfile, n, db, device_ht, held, call>>

\* g_hash_table_destroy (db->device_ht): libwacom_destroy on every value.
RECURSIVE DestroyDevices(_, _)
DestroyDevices(m, ptrs) ==
    IF ptrs = {} THEN m
    ELSE LET a == CHOOSE x \in ptrs : TRUE
         IN  DestroyDevices(libwacom_destroy(m, a), ptrs \ {a})

\* g_hash_table_destroy (db->stylus_ht): libwacom_stylus_destroy on every value.
RECURSIVE DestroyStyli(_, _)
DestroyStyli(m, ptrs) ==
    IF ptrs = {} THEN m
    ELSE LET a == CHOOSE x \in ptrs : TRUE
         IN  DestroyStyli(libwacom_stylus_destroy(m, a), ptrs \ {a})

\* libwacom_database_destroy: g_hash_table_destroy on a NULL table fails its
\* g_return_if_fail check (a critical is logged) and returns.
DatabaseDestroy ==
    /\ pc = "ready"
    /\ call = NoCall
    /\ pc' = "destroyed"
    /\ mem' = DestroyStyli(DestroyDevices(mem, {device_ht[k] : k \in DOMAIN device_ht}),
                           {stylus_ht[k] : k \in DOMAIN stylus_ht})
    /\ device_ht' = <<>>
    /\ stylus_ht' = <<>>
    /\ db' = NoDb
    /\ call' = [NoCall EXCEPT !.op = "database_destroy", !.db = TRUE,
                              !.critical = ~db.stylus_ht]
    /\ UNCHANGED <<datadir, stylusfile, n, gi, held, warnings>>

(***************************************************************************)
(* The device metadata udev holds, by device file.                         *)
(*   found    g_udev_client_query_by_device_file returned a device          *)
(*   tablet   ID_INPUT_TABLET                                               *)
(*   ID_BUS, ID_VENDOR_ID, ID_MODEL_ID, PRODUCT: properties (None: unset)   *)
(*   parent   None when the device has no parent, else <<PRODUCT of it>>    *)
(* A device with ID_BUS=usb carries ID_VENDOR_ID and ID_MODEL_ID: udev sets *)
(* the three together.                                                      *)
(***************************************************************************)
UdevDevice(found, tablet, ID_BUS, ID_VENDOR_ID, ID_MODEL_ID, PRODUCT, parent) ==
    [found |-> found, tablet |-> tablet, ID_BUS |-> ID_BUS,
     ID_VENDOR_ID |-> ID_VENDOR_ID, ID_MODEL_ID |-> ID_MODEL_ID,
     PRODUCT |-> PRODUCT, parent |-> parent]

P_four == <<"5","/","5","6","a","/","8","1","/","1","0","0">>
P_three == <<"5","/","5","6","a","/","8","1">>
P_five == <<"5","/","5","6","a","/","8","1","/","1","0","0","/","7">>

Paths == {"usb81", "usbff", "bt81", "btshort", "btlong", "btorphan", "serial",
          "pci", "mouse", "gone"}

Udev(path) ==
    CASE path = "usb81" ->
           UdevDevice(TRUE, TRUE, Some(T_usb), Some(<<"0","5","6","a">>),
                      Some(<<"0","0","8","1">>), None, None)
      [] path = "usbff" ->
           UdevDevice(TRUE, TRUE, Some(T_usb), Some(<<"0","5","6","a">>),
                      Some(<<"0","0","f","f">>), None, None)
      [] path = "bt81" ->
           UdevDevice(TRUE, TRUE, None, None, None, None, Some(Some(P_four)))
      [] path = "btshort" ->
           UdevDevice(TRUE, TRUE, Some(T_bluetooth), None, None, Some(P_three), None)
      [] path = "btlong" ->
           UdevDevice(TRUE, TRUE, Some(T_bluetooth), None, None, Some(P_five), None)
      [] path = "btorphan" ->
           UdevDevice(TRUE, TRUE, None, None, None, None, None)
      [] path = "serial" ->
           UdevDevice(TRUE, TRUE, Some(T_serial), None, None, None, None)
      [] path = "pci" ->
           UdevDevice(TRUE, TRUE, Some(<<"p","c","i">>), None, None, None, None)
      [] path = "mouse" ->
           UdevDevice(TRUE, FALSE, Some(T_usb), Some(<<"0","4","6","d">>),
                      Some(<<"c","0","7","7">>), None, None)
      [] OTHER ->
           UdevDevice(FALSE, FALSE, None, None, None, None, None)

(***************************************************************************)
(* Hardware Resolver (libwacom.c).                                         *)
(***************************************************************************)
\* libwacom_error_set(error, code, ...): the code is stored in *error,
\* replacing what an earlier call stored.
libwacom_error_set(error, code) == code

\* sscanf(product_str, "%d/%x/%x/%d", &garbage, vendor_id, product_id, &garbage):
\* the number of conversions made, and the two ids as far as they were read.
ScanProduct(s) ==
    LET a == ScanDec(s, 1)
        v == ScanHex(s, a.j + 1)
        p == ScanHex(s, v.j + 1)
        g == ScanDec(s, p.j + 1)
        rc == IF ~a.ok THEN 0
              ELSE IF ~ScanLit(s, a.j, "/") \/ ~v.ok THEN 1
              ELSE IF ~ScanLit(s, v.j, "/") \/ ~p.ok THEN 2
              ELSE IF ~ScanLit(s, p.j, "/") \/ ~g.ok THEN 3
              ELSE 4
    IN  [rc |-> rc, vendor_id |-> IF rc >= 2 THEN v.v ELSE 0,
         product_id |-> IF rc >= 3 THEN p.v ELSE 0]

\* get_device_info(path, ...), as the set of its outcomes
\* [segv, retval, vendor_id, product_id, bus, err]; err is "none" when the
\* function set no error.  With no bus string the parent is asked and the
\* bus is bluetooth; a PRODUCT that is not there (or no parent) hands NULL
\* to sscanf, which is undefined: it faults, or it converts nothing.
DeviceInfo(dev) ==
    LET out(retval, vendor_id, product_id, bus, err) ==
            [segv |-> FALSE, retval |-> retval, vendor_id |-> vendor_id,
             product_id |-> product_id, bus |-> bus, err |-> err]
        bus_str == IF IsSome(dev.ID_BUS) THEN Val(dev.ID_BUS) ELSE T_bluetooth
        product_str == IF IsSome(dev.ID_BUS) THEN dev.PRODUCT
                       ELSE IF IsSome(dev.parent) THEN Val(dev.parent)
                       ELSE None
        bus == bus_from_str(bus_str)
        sc  == ScanProduct(Val(product_str))
        unknown == out(FALSE, 0, 0, bus,
                       libwacom_error_set("none", "WERROR_UNKNOWN_MODEL"))
    IN  IF ~dev.found
        THEN {out(FALSE, 0, 0, "WBUSTYPE_UNKNOWN",
                  libwacom_error_set("none", "WERROR_INVALID_PATH"))}
        ELSE IF ~dev.tablet
        THEN {out(FALSE, 0, 0, "WBUSTYPE_UNKNOWN",
                  libwacom_error_set("none", "WERROR_INVALID_PATH"))}
        ELSE IF bus = "WBUSTYPE_USB"
        THEN {out(TRUE, strtol(Val(dev.ID_VENDOR_ID), 16),
                  strtol(Val(dev.ID_MODEL_ID), 16), bus, "none")}
        ELSE IF bus = "WBUSTYPE_BLUETOOTH"
        THEN IF ~IsSome(product_str)
             THEN {[unknown EXCEPT !.segv = TRUE], unknown}
             ELSE IF sc.rc # 4
             THEN {[unknown EXCEPT !.vendor_id = sc.vendor_id,
                                   !.product_id = sc.product_id]}
             ELSE {out(TRUE, sc.vendor_id, sc.product_id, bus, "none")}
        ELSE {unknown}

\* get_device_info without the ID_INPUT_TABLET test
get_device_info_any_input(path) == DeviceInfo([Udev(path) EXCEPT !.tablet = TRUE])

get_device_info(path) == DeviceInfo(Udev(path))

\* libwacom_get_device(db, match) on a db that is not NULL
libwacom_get_device(ht, match) == DeviceTableLookup(ht, match)

\* libwacom_copy with the stylus-id array shared instead of g_memdup'ed
libwacom_copy_shared_styli(m, device) ==
    LET src == m[device]
        a   == FreeAddr(m)
        m0  == Store(m, a, ZeroDevice)
        v   == g_strdup(m0, StrAt(m0, src.vendor))
        p   == g_strdup(v.m, StrAt(v.m, src.product))
        k   == g_strdup(p.m, StrAt(p.m, src.match))
    IN  [m |-> [k.m EXCEPT ![a] =
                  [kind |-> "dev", vendor |-> v.p, product |-> p.p,
                   width |-> src.width, height |-> src.height, match |-> k.p,
                   vendor_id |-> src.vendor_id, product_id |-> src.product_id,
                   cls |-> src.cls, bus |-> src.bus, num_buttons |-> src.num_buttons,
                   supported_styli |-> src.supported_styli, num_styli |-> src.num_styli,
                   features |-> src.features]],
         p |-> a]

\* libwacom_copy(device): [m |-> the heap after it, p |-> the copy]
libwacom_copy(m, device) ==
    LET src == m[device]
        a   == FreeAddr(m)
        m0  == Store(m, a, ZeroDevice)
        v   == g_strdup(m0, StrAt(m0, src.vendor))
        p   == g_strdup(v.m, StrAt(v.m, src.product))
        k   == g_strdup(p.m, StrAt(p.m, src.match))
        st  == g_memdup(k.m, src.supported_styli, src.num_styli)
    IN  [m |-> [st.m EXCEPT ![a] =
                  [kind |-> "dev", vendor |-> v.p, product |-> p.p,
                   width |-> src.width, height |-> src.height, match |-> k.p,
                   vendor_id |-> src.vendor_id, product_id |-> src.product_id,
                   cls |-> src.cls, bus |-> src.bus, num_buttons |-> src.num_buttons,
                   supported_styli |-> st.p, num_styli |-> src.num_styli,
                   features |-> src.features]],
         p |-> a]

\* libwacom_new(db, vendor_id, product_id, bus, error): dbok says db is not
\* NULL.  [device |-> the table's device or NULL, err |-> *error after it]
libwacom_new(dbok, ht, vendor_id, product_id, bus, error) ==
    IF ~dbok
    THEN [device |-> NULL, err |-> libwacom_error_set(error, "WERROR_INVALID_DB")]
    ELSE [device |-> libwacom_get_device(ht, MatchKey(bus, vendor_id, product_id)),
          err |-> error]

\* What a resolver leaves: the heap, the device returned and *error.
Returned(m, ret, err) == [segv |-> FALSE, m |-> m, ret |-> ret, err |-> err]
Faulted(m) == [segv |-> TRUE, m |-> m, ret |-> NULL, err |-> "none"]

\* libwacom_new_from_path falling back to "generic" whatever fallback says
libwacom_new_from_path_any_fallback(dbok, ht, m, path, fallback) ==
    IF ~IsSome(path)
    THEN {Returned(m, NULL, libwacom_error_set("none", "WERROR_INVALID_PATH"))}
    ELSE UNION {
        IF info.segv THEN {Faulted(m)}
        ELSE IF ~info.retval THEN {Returned(m, NULL, info.err)}
        ELSE LET r == libwacom_new(dbok, ht, info.vendor_id, info.product_id,
                                   info.bus, info.err)
                 unknown == Returned(m, NULL,
                                     libwacom_error_set(r.err, "WERROR_UNKNOWN_MODEL"))
                 copied(device) == LET c == libwacom_copy(m, device)
                                   IN  Returned(c.m, c.p, r.err)
             IN  IF r.device # NULL THEN {copied(r.device)}
                 ELSE IF ~dbok THEN {Faulted(m), unknown}
                 ELSE IF libwacom_get_device(ht, T_generic) # NULL
                      THEN {copied(libwacom_get_device(ht, T_generic))}
                      ELSE {unknown}
        : info \in get_device_info(Val(path))}

\* libwacom_new_from_path(db, path, fallback, error), as the set of its
\* outcomes.  path is None for NULL.  With db NULL and fallback set,
\* libwacom_get_device reads db->device_ht through NULL, which is undefined:
\* the process faults, or the lookup comes back with nothing.
libwacom_new_from_path(dbok, ht, m, path, fallback) ==
    IF ~IsSome(path)
    THEN {Returned(m, NULL, libwacom_error_set("none", "WERROR_INVALID_PATH"))}
    ELSE UNION {
        IF info.segv THEN {Faulted(m)}
        ELSE IF ~info.retval THEN {Returned(m, NULL, info.err)}
        ELSE LET r == libwacom_new(dbok, ht, info.vendor_id, info.product_id,
                                   info.bus, info.err)
                 unknown == Returned(m, NULL,
                                     libwacom_error_set(r.err, "WERROR_UNKNOWN_MODEL"))
                 copied(device) == LET c == libwacom_copy(m, device)
                                   IN  Returned(c.m, c.p, r.err)
             IN  IF r.device # NULL THEN {copied(r.device)}
                 ELSE IF ~fallback THEN {unknown}
                 ELSE IF ~dbok THEN {Faulted(m), unknown}
                 ELSE IF libwacom_get_device(ht, T_generic) # NULL
                      THEN {copied(libwacom_get_device(ht, T_generic))}
                      ELSE {unknown}
        : info \in get_device_info(Val(path))}

\* libwacom_new_from_usbid(db, vendor_id, product_id, error)
libwacom_new_from_usbid(dbok, ht, m, vendor_id, product_id) ==
    LET r == libwacom_new(dbok, ht, vendor_id, product_id, "WBUSTYPE_USB", "none")
        c == libwacom_copy(m, r.device)
    IN  IF r.device # NULL THEN {Returned(c.m, c.p, r.err)}
        ELSE {Returned(m, NULL, libwacom_error_set(r.err, "WERROR_UNKNOWN_MODEL"))}

\* libwacom_new_from_name(db, name, error): the first value of the table, in
\* the table's own order, whose product is name (g_strcmp0: NULL equals NULL).
\* The order of g_hash_table_get_values is not specified, so each match can
\* be the first.
libwacom_new_from_name(dbok, ht, m, name) ==
    LET hits == {ht[k] : k \in {x \in DOMAIN ht : StrAt(m, m[ht[x]].product) = name}}
    IN  IF ~dbok
        THEN {Returned(m, NULL, libwacom_error_set("none", "WERROR_INVALID_DB"))}
        ELSE IF hits # {}
        THEN {LET c == libwacom_copy(m, d) IN Returned(c.m, c.p, "none") : d \in hits}
        ELSE {Returned(m, NULL, libwacom_error_set("none", "WERROR_UNKNOWN_MODEL"))}

(***************************************************************************)
(* The caller.  A resolver may be called with NULL for the db at any time  *)
(* and with the db once libwacom_database_new returned it; the caller      *)
(* holds at most MaxHeld devices and does with a device it holds what an   *)
(* owner may: write to it, and destroy it.  The library is single-threaded:*)
(* the caller takes the outcome of one call (Return) before the next.      *)
(***************************************************************************)
DbArgs == {FALSE} \cup (IF pc = "ready" THEN {TRUE} ELSE {})

CanCall == pc \in {"start", "ready"} /\ call = NoCall /\ Cardinality(held) < MaxHeld

\* The caller has read what the last call returned and its WacomError.
Return ==
    /\ pc \in {"start", "ready", "destroyed"}
    /\ call # NoCall
    /\ call' = NoCall
    /\ UNCHANGED <<datadir, stylusfile, pc, n, gi, db, device_ht, stylus_ht, mem, held,
                   warnings>>

Finish(o, c) ==
    /\ pc' = IF o.segv THEN "segv" ELSE pc
    /\ mem' = o.m
    /\ held' = held \cup ({o.ret} \ {NULL})
    /\ call' = [c EXCEPT !.ret = o.ret, !.err = o.err]
    /\ UNCHANGED <<datadir, stylusfile, n, gi, db, device_ht, stylus_ht, warnings>>

UsbVendors == {1386}        \* 0x56a
UsbProducts == {129, 255}   \* 0x81, 0xff

NewFromUsbId ==
    /\ CanCall
    /\ \E dbok \in DbArgs, vendor_id \in UsbVendors, product_id \in UsbProducts :
         \E o \in libwacom_new_from_usbid(dbok, device_ht, mem, vendor_id, product_id) :
            Finish(o, [NoCall EXCEPT !.op = "new_from_usbid", !.db = dbok,
                                     !.vendor_id = vendor_id, !.product_id = product_id])

NewFromPath ==
    /\ CanCall
    /\ \E dbok \in DbArgs, path \in {None} \cup {Some(x) : x \in Paths},
          fallback \in {TRUE, FALSE} :
         \E o \in libwacom_new_from_path(dbok, device_ht, mem, path, fallback) :
            Finish(o, [NoCall EXCEPT !.op = "new_from_path", !.db = dbok,
                                     !.path = path, !.fallback = fallback])

Names == {Some(T_I4), Some(T_G), Some(T_W)}

NewFromName ==
    /\ CanCall
    /\ \E dbok \in DbArgs, name \in Names :
         \E o \in libwacom_new_from_name(dbok, device_ht, mem, name) :
            Finish(o, [NoCall EXCEPT !.op = "new_from_name", !.db = dbok,
                                     !.name = name])

\* libwacom_destroy on a device the caller holds
Destroy ==
    /\ pc \in {"start", "ready", "destroyed"}
    /\ call = NoCall
    /\ \E d \in held :
         /\ mem' = libwacom_destroy(mem, d)
         /\ held' = held \ {d}
         /\ call' = [NoCall EXCEPT !.op = "destroy"]
    /\ UNCHANGED <<datadir, stylusfile, pc, n, gi, db, device_ht, stylus_ht, warnings>>

\* The caller writes to every part of a device it holds: the scalar fields,
\* the characters of its strings and the elements of its stylus-id array.
Scribbled(m, d) ==
    LET over(a, c) == IF a = NULL THEN {} ELSE {<<a, [m[a] EXCEPT !.v = [i \in DOMAIN m[a].v |-> c]]>>}
        cells == over(m[d].vendor, "#") \cup over(m[d].product, "#")
                 \cup over(m[d].match, "#") \cup over(m[d].supported_styli, 0)
        at(a) == CHOOSE x \in cells : x[1] = a
    IN  [a \in DOMAIN m |->
            IF a = d
            THEN [m[d] EXCEPT !.width = -1, !.height = -1, !.vendor_id = 0,
                              !.product_id = 0, !.cls = "WCLASS_UNKNOWN",
                              !.bus = "WBUSTYPE_UNKNOWN", !.num_buttons = -1,
                              !.features = {}]
            ELSE IF \E x \in cells : x[1] = a THEN at(a)[2]
            ELSE m[a]]

Mutate ==
    /\ pc \in {"start", "ready", "destroyed"}
    /\ call = NoCall
    /\ \E d \in held :
         /\ mem' = Scribbled(mem, d)
         /\ mem' # mem
         /\ call' = [NoCall EXCEPT !.op = "mutate"]
    /\ UNCHANGED <<datadir, stylusfile, pc, n, gi, db, device_ht, stylus_ht, held, warnings>>

StylusIds == {26, 43, 7}   \* 0x1a, 0x2b, and an id no group has

\* libwacom_stylus_get_for_id: g_hash_table_lookup on a NULL table fails its
\* g_return_val_if_fail check (a critical is logged) and returns NULL.
StylusGetForId ==
    /\ pc = "ready"
    /\ call = NoCall
    /\ \E id \in StylusIds :
         call' = [NoCall EXCEPT !.op = "stylus_get_for_id", !.db = TRUE, !.id = id,
                                !.ret = IF id \in DOMAIN stylus_ht THEN stylus_ht[id] ELSE NULL,
                                !.critical = ~db.stylus_ht]
    /\ UNCHANGED <<datadir, stylusfile, pc, n, gi, db, device_ht, stylus_ht, mem, held, warnings>>

Next ==
    \/ DatabaseNew
    \/ LoadTablet
    \/ LoadStyli
    \/ LoadStylusGroup
    \/ DatabaseDestroy
    \/ NewFromPath
    \/ NewFromUsbId
    \/ NewFromName
    \/ Destroy
    \/ Mutate
    \/ StylusGetForId
    \/ Return

Spec == Init /\ [][Next]_vars

(***************************************************************************)
(* What the claims speak of.                                               *)
(***************************************************************************)
\* The descriptor a device struct stands for: its fields, with the strings
\* and the stylus-id sequence read through its pointers.
DeviceValue(m, a) ==
    [vendor |-> StrAt(m, m[a].vendor), product |-> StrAt(m, m[a].product),
     width |-> m[a].width, height |-> m[a].height, cls |-> m[a].cls,
     match |-> StrAt(m, m[a].match), vendor_id |-> m[a].vendor_id,
     product_id |-> m[a].product_id, bus |-> m[a].bus,
     num_buttons |-> m[a].num_buttons,
     styli |-> IF m[a].supported_styli = NULL THEN <<>> ELSE m[m[a].supported_styli].v,
     num_styli |-> m[a].num_styli, features |-> m[a].features]

\* The cells a device owns.
DeviceCells(m, a) ==
    {a} \cup ({m[a].vendor, m[a].product, m[a].match, m[a].supported_styli} \ {NULL})

\* The device at a can be used: the struct and all it points to are allocated
\* and of the right kind.
DeviceValid(m, a) ==
    /\ IsLive(m, a) /\ m[a].kind = "dev"
    /\ \A s \in {m[a].vendor, m[a].product, m[a].match} \ {NULL} :
          IsLive(m, s) /\ m[s].kind = "str"
    /\ m[a].supported_styli # NULL =>
          /\ IsLive(m, m[a].supported_styli)
          /\ m[m[a].supported_styli].kind = "ints"
          /\ Len(m[m[a].supported_styli].v) = m[a].num_styli

TableDevices == {device_ht[k] : k \in DOMAIN device_ht}

TableValue == [k \in DOMAIN device_ht |-> DeviceValue(mem, device_ht[k])]

ResolverOps == {"new_from_usbid", "new_from_path", "new_from_name"}

K_usb_56a_81 == <<"u","s","b",":","0","x","5","6","a",":","0","x","8","1">>
K_usb_56a_ff == <<"u","s","b",":","0","x","5","6","a",":","0","x","f","f">>
K_bluetooth_56a_81 ==
    <<"b","l","u","e","t","o","o","t","h",":","0","x","5","6","a",":","0","x","8","1">>

\* C1, the state part: a device a resolver just returned is a new object
\* whose descriptor equals, field by field, that of a table entry (the entry
\* under usb:0x<vendor>:0x<product> for the usb-id resolver, an entry with
\* the product name asked for for the name resolver); every device the
\* caller holds stays usable, also once the database is gone; every table
\* entry stays usable; and no cell is shared between two of them.
C1_CopyState ==
    /\ (call.op \in ResolverOps /\ call.ret # NULL) =>
          /\ call.ret \in held
          /\ \E k \in DOMAIN device_ht :
                /\ DeviceValue(mem, call.ret) = DeviceValue(mem, device_ht[k])
                /\ call.op = "new_from_usbid" =>
                      /\ call.vendor_id = 1386 /\ call.product_id = 129
                      /\ k = Some(K_usb_56a_81)
                /\ call.op = "new_from_name" =>
                      DeviceValue(mem, device_ht[k]).product = call.name
    /\ \A d \in held \cup TableDevices : DeviceValid(mem, d)
    /\ \A d, e \in held \cup TableDevices :
          d # e => DeviceCells(mem, d) \cap DeviceCells(mem, e) = {}

\* C1, the step part: while the database lives, nothing the caller does
\* (resolving, writing to a copy, destroying a copy) changes a table entry.
C1_TableKept ==
    (pc = "ready" /\ pc' \in {"ready", "segv"}) => TableValue' = TableValue

\* C1: every device a resolver returns is a deep copy of the table entry,
\* equal to it in every field, and writing to the copy, destroying the copy
\* or destroying the database leaves the table entry as it was and the
\* copies still held usable.
C1_DeepCopy == [](C1_CopyState) /\ [][C1_TableKept]_vars

\* C1 witness: the database is destroyed and the caller has just written to
\* a copy it still holds.
C1_Witness ==
    /\ pc = "destroyed"
    /\ call.op = "mutate"
    /\ \E d \in held : DeviceValue(mem, d).width = -1

\* The descriptor file f parses to, when it parses to one with a match key.
Descriptor(f) ==
    (CHOOSE o \in libwacom_parse_tablet_keyfile(f) : o.kind = "dev").d

\* The places in the sorted directory of the files that yield match key k.
FilesWithKey(k) ==
    {i \in 1..Len(datadir) :
        /\ IsSome(k)
        /\ \E o \in libwacom_parse_tablet_keyfile(datadir[i]) :
              o.kind = "dev" /\ o.d.match = k}

First(S) == CHOOSE i \in S : \A j \in S : i <= j
Last(S) == CHOOSE i \in S : \A j \in S : j <= i

TabletsLoaded == pc \in {"styli", "groups", "ready"}

\* C2 as stated: after the .tablet files are loaded, a match key that two or
\* more files yield holds the descriptor of the alphabetically last of them,
\* and the load of the tablets logged no warning.
C2_LastFileWins ==
    /\ TabletsLoaded =>
          \A k \in DOMAIN device_ht :
             Cardinality(FilesWithKey(k)) >= 2 =>
                TableValue[k] = Descriptor(datadir[Last(FilesWithKey(k))])
    /\ pc = "styli" => warnings = <<>>

\* C2 as the code has it: while(n--) walks the sorted files from the last to
\* the first and a later insert replaces an earlier one, so a match key that
\* two or more files yield holds the descriptor of the alphabetically FIRST
\* of them; the load of the tablets logged no warning.
C2_FirstFileWins ==
    /\ TabletsLoaded =>
          \A k \in DOMAIN device_ht :
             Cardinality(FilesWithKey(k)) >= 2 =>
                TableValue[k] = Descriptor(datadir[First(FilesWithKey(k))])
    /\ pc = "styli" => warnings = <<>>

\* C2 witness: the load is over and two files with different descriptors
\* yielded the match key usb:0x56a:0x81.
C2_Witness ==
    /\ pc = "ready"
    /\ Some(K_usb_56a_81) \in DOMAIN device_ht
    /\ \E i, j \in FilesWithKey(Some(K_usb_56a_81)) :
          Descriptor(datadir[i]).product # Descriptor(datadir[j]).product

\* C3 as stated: libwacom_database_new always returns a database and never
\* aborts, whatever the .tablet files and the stylus catalog hold.  (Read in
\* the claim's favour: only the aborts the code asks for, g_assert and
\* g_assert_not_reached, count here; the faults of undefined behaviour are
\* left to C5.)
C3_LoadAlwaysReturns ==
    call.op = "database_new" => pc # "aborted"

\* C4 as stated: with no .tablet file in the directory the database returned
\* has both tables, the usb-id and name resolvers fail with UnknownModel,
\* the stylus lookup returns NULL (from a table, not from a failed check on
\* a NULL one), and libwacom_database_destroy runs without a failed check.
C4_EmptyDirectoryValid ==
    datadir = <<>> =>
       /\ pc = "ready" =>
             /\ db.device_ht /\ db.stylus_ht
             /\ (call.op \in {"new_from_usbid", "new_from_name"} /\ call.db) =>
                   call.ret = NULL /\ call.err = "WERROR_UNKNOWN_MODEL"
             /\ call.op = "stylus_get_for_id" => call.ret = NULL /\ ~call.critical
       /\ (pc = "destroyed" /\ call.op = "database_destroy") => ~call.critical

\* C5 as stated: a descriptor whose match key is unset is passed over (the
\* load does not fault on it) and never inserted: every key of the device
\* table is a string, equal to the match key of its descriptor, which is
\* "generic" or the canonical string of the descriptor's own bus, vendor id
\* and product id.
C5_NoUnsetKey ==
    /\ \A k \in DOMAIN device_ht :
          /\ IsSome(k)
          /\ TableValue[k].match = k
          /\ \/ Val(k) = T_generic
             \/ Val(k) = MatchKey(TableValue[k].bus, TableValue[k].vendor_id,
                                  TableValue[k].product_id)
    /\ call.op = "database_new" => pc # "segv"

\* The device files from which get_device_info derives an identity, and the
\* match key of that identity.
DerivingPaths == {"usb81", "usbff", "bt81", "btlong"}

DerivedKey(path) ==
    CASE path = "usb81" -> K_usb_56a_81
      [] path = "usbff" -> K_usb_56a_ff
      [] OTHER -> K_bluetooth_56a_81

\* C6: libwacom_new_from_path with a database, for a device whose identity
\* could be derived, returns a copy of the entry under the derived key when
\* the table has it; else, with fallback set and a "generic" entry, a copy
\* of that entry; else NULL with WERROR_UNKNOWN_MODEL.
C6_Fallback ==
    (/\ call.op = "new_from_path" /\ call.db
     /\ IsSome(call.path) /\ Val(call.path) \in DerivingPaths) =>
       LET key == Some(DerivedKey(Val(call.path)))
           copy_of(k) == /\ call.ret # NULL
                         /\ call.ret \notin TableDevices
                         /\ DeviceValue(mem, call.ret) = TableValue[k]
       IN  IF key \in DOMAIN device_ht THEN copy_of(key)
           ELSE IF call.fallback /\ Some(T_generic) \in DOMAIN device_ht
                THEN copy_of(Some(T_generic))
           ELSE call.ret = NULL /\ call.err = "WERROR_UNKNOWN_MODEL"

\* C6 witness: a device whose derived key the table lacks was resolved with
\* fallback and the copy returned is that of the "generic" entry.
C6_Witness ==
    /\ call.op = "new_from_path" /\ call.fallback
    /\ call.path = Some("usbff")
    /\ Some(K_usb_56a_ff) \notin DOMAIN device_ht
    /\ call.ret # NULL
    /\ DeviceValue(mem, call.ret).match = Some(T_generic)

\* C7 as stated: a resolver called with NULL for the database (and, for the
\* path resolver, a device file whose identity can be derived) returns NULL
\* with WERROR_INVALID_DB and does not read through the NULL handle.
C7_NullDbIsInvalidDb ==
    (/\ call.op \in ResolverOps /\ ~call.db
     /\ call.op = "new_from_path" =>
           IsSome(call.path) /\ Val(call.path) \in DerivingPaths) =>
       /\ pc # "segv"
       /\ call.ret = NULL
       /\ call.err = "WERROR_INVALID_DB"

\* The descriptor a stylus struct stands for.
StylusValue(m, a) ==
    [id |-> m[a].id, name |-> StrAt(m, m[a].name), is_eraser |-> m[a].is_eraser,
     has_eraser |-> m[a].has_eraser, num_buttons |-> m[a].num_buttons,
     type |-> m[a].type]

\* C8: every stylus of the stylus table that is an eraser has no eraser and
\* 0 buttons, and every stylus of the table has a nonzero id, which is its
\* key.
C8_EraserForced ==
    \A id \in DOMAIN stylus_ht :
       LET st == StylusValue(mem, stylus_ht[id])
       IN  /\ st.id = id /\ id # 0
           /\ st.is_eraser => (st.has_eraser = FALSE /\ st.num_buttons = 0)

\* C8 witness: the table holds an eraser whose group in the catalog says
\* HasEraser=true and Buttons=2.
C8_Witness ==
    /\ pc = "ready" /\ db.stylus_ht
    /\ \E i \in 1..Len(Val(stylusfile)) :
          LET g == Val(stylusfile)[i]
          IN  /\ g.IsEraser /\ g.HasEraser /\ g.Buttons = Some(2)
              /\ strtol(g.group, 16) \in DOMAIN stylus_ht
              /\ StylusValue(mem, stylus_ht[strtol(g.group, 16)]).is_eraser

\* The places in the catalog of the groups whose name reads as id.
GroupsWithId(id) ==
    {i \in 1..Len(Val(stylusfile)) : strtol(Val(stylusfile)[i].group, 16) = id}

DuplicateWarnings(id) ==
    {j \in 1..Len(warnings) : warnings[j] = [what |-> "Duplicate definition", id |-> id]}

\* C9: the catalog once opened, the load does not fail on it; when it is
\* over, every nonzero id a group name reads as has exactly one stylus, in
\* the table and on the heap, with the fields of the last group of that id,
\* and one warning was logged for every group of that id but the first.
C9_LastGroupWins ==
    /\ (db.stylus_ht /\ IsSome(stylusfile) /\ call.op = "database_new") =>
          pc \notin {"aborted", "segv"}
    /\ (pc = "ready" /\ db.stylus_ht) =>
          \A i \in 1..Len(Val(stylusfile)) :
             LET id == strtol(Val(stylusfile)[i].group, 16)
             IN  id # 0 =>
                   /\ id \in DOMAIN stylus_ht
                   /\ StylusValue(mem, stylus_ht[id]) =
                         ParseStylusGroup(Val(stylusfile)[Last(GroupsWithId(id))], id)
                   /\ Cardinality({a \in 1..Len(mem) :
                                      mem[a].kind = "stylus" /\ mem[a].id = id}) = 1
                   /\ Cardinality(DuplicateWarnings(id)) =
                         Cardinality(GroupsWithId(id)) - 1

\* C9 witness: the load is over, two groups with different fields read as
\* the same id and the overwrite was logged.
C9_Witness ==
    /\ pc = "ready" /\ db.stylus_ht
    /\ \E i, j \in 1..Len(Val(stylusfile)) :
          /\ i < j
          /\ strtol(Val(stylusfile)[i].group, 16) = strtol(Val(stylusfile)[j].group, 16)
          /\ Val(stylusfile)[i].IsEraser # Val(stylusfile)[j].IsEraser
          /\ DuplicateWarnings(strtol(Val(stylusfile)[i].group, 16)) # {}

\* The number of slash-separated fields of a composite property.
NumFields(s) == 1 + Cardinality({i \in 1..Len(s) : s[i] = "/"})

\* The PRODUCT property get_device_info reads for a bluetooth device: the
\* parent's when the device has no ID_BUS.
ProductOf(dev) ==
    IF IsSome(dev.ID_BUS) THEN dev.PRODUCT
    ELSE IF IsSome(dev.parent) THEN Val(dev.parent)
    ELSE None

\* The causes of failure C10 names, for the path of the last call.
NoSuchTablet ==
    \/ ~IsSome(call.path)
    \/ ~Udev(Val(call.path)).found
    \/ ~Udev(Val(call.path)).tablet

SerialOrOtherBus ==
    /\ ~NoSuchTablet
    /\ IsSome(Udev(Val(call.path)).ID_BUS)
    /\ Val(Udev(Val(call.path)).ID_BUS) \notin {T_usb, T_bluetooth}

BluetoothProduct ==
    /\ ~NoSuchTablet
    /\ Udev(Val(call.path)).ID_BUS \in {None, Some(T_bluetooth)}
    /\ IsSome(ProductOf(Udev(Val(call.path))))

\* C10 as stated: NULL path, no such hardware or no tablet give NULL with
\* WERROR_INVALID_PATH; a serial or unrecognized bus, or a bluetooth PRODUCT
\* that has not exactly 4 slash-separated fields, give NULL with
\* WERROR_UNKNOWN_MODEL; whatever fallback and the table are.  (Read in the
\* claim's favour: a call that faulted on a NULL db is left aside.)
C10_NotFourFields ==
    (call.op = "new_from_path" /\ pc # "segv") =>
       /\ NoSuchTablet => (call.ret = NULL /\ call.err = "WERROR_INVALID_PATH")
       /\ (\/ SerialOrOtherBus
           \/ /\ BluetoothProduct
              /\ NumFields(Val(ProductOf(Udev(Val(call.path))))) # 4) =>
             (call.ret = NULL /\ call.err = "WERROR_UNKNOWN_MODEL")

\* C10 as the code has it: sscanf reads the first four fields of PRODUCT and
\* ignores what follows them, so it is a PRODUCT with FEWER than 4
\* slash-separated fields that gives NULL with WERROR_UNKNOWN_MODEL; the
\* other causes are as stated.
C10_FewerThanFourFields ==
    call.op = "new_from_path" =>
       /\ NoSuchTablet => (call.ret = NULL /\ call.err = "WERROR_INVALID_PATH")
       /\ (\/ SerialOrOtherBus
           \/ /\ BluetoothProduct
              /\ NumFields(Val(ProductOf(Udev(Val(call.path))))) < 4) =>
             (call.ret = NULL /\ call.err = "WERROR_UNKNOWN_MODEL")

\* C10 witness: a bluetooth device with a three-field PRODUCT was resolved
\* with fallback against a database that has a "generic" entry, and NULL
\* came back with WERROR_UNKNOWN_MODEL.
C10_Witness ==
    /\ call.op = "new_from_path" /\ call.db /\ call.fallback
    /\ call.path = Some("btshort")
    /\ Some(T_generic) \in DOMAIN device_ht
    /\ call.ret = NULL /\ call.err = "WERROR_UNKNOWN_MODEL"

\* The identity of a descriptor: its bus type, vendor id and product id.
Identity(d) == [bus |-> d.bus, vendor_id |-> d.vendor_id, product_id |-> d.product_id]

\* C11 as stated: the descriptor libwacom_new_from_usbid returns is a USB
\* one with the vendor and product ids asked for; the descriptor
\* libwacom_new_from_path returns from the entry under the derived key (not
\* from "generic") has the bus, vendor id and product id get_device_info
\* derived for the device file; and the files that yield one match key other
\* than "generic" all describe the identity of the entry under that key.
C11_SameIdentity ==
    /\ (call.op = "new_from_usbid" /\ call.ret # NULL) =>
          Identity(DeviceValue(mem, call.ret)) =
             [bus |-> "WBUSTYPE_USB", vendor_id |-> call.vendor_id,
              product_id |-> call.product_id]
    /\ (/\ call.op = "new_from_path" /\ call.db /\ call.ret # NULL
        /\ IsSome(call.path) /\ Val(call.path) \in DerivingPaths
        /\ Some(DerivedKey(Val(call.path))) \in DOMAIN device_ht) =>
          \A i \in get_device_info(Val(call.path)) :
             Identity(DeviceValue(mem, call.ret)) = Identity(i)
    /\ TabletsLoaded =>
          \A k \in DOMAIN device_ht :
             (IsSome(k) /\ Val(k) # T_generic) =>
                \A i \in FilesWithKey(k) :
                   Identity(Descriptor(datadir[i])) = Identity(TableValue[k])

====
